---- MODULE Spec2Model ----
(***************************************************************************)
(* A model of the lightnode request pipeline                               *)
(*                                                                         *)
(*     ingress (http.Server.handleFunc)  ->  validator  ->  cacher         *)
(*                                        ->  dispatcher  ->  darknodes    *)
(*                                                                         *)
(* Every stage but the ingress is a phi.Task: a bounded mailbox and one    *)
(* goroutine that calls Handle on one message at a time.  The ingress runs *)
(* one goroutine per request of a batch (phi.ParForAll).                   *)
(***************************************************************************)
EXTENDS Integers, Sequences, FiniteSets, TLC

(***************************************************************************)
(* Bounds of the model.                                                    *)
(***************************************************************************)
\* Options.MaxBatchSize as configured.
MaxBatchSize == 2
\* Number of HTTP POSTs a behaviour serves.
MaxPosts == 1
\* Number of envelopes that other handlers submit in a behaviour of the
\* pipeline on its own.
MaxEnvs == 3
\* phi.Options.Cap of the validator, the cacher and the dispatcher.
MailboxCap == 1
\* Number of darknode IDs the multi-address store may hold.
MaxIDs == 3
\* Number of transaction hashes the database may hold.
MaxTxs == 2
\* Capacity of the resolver's input channel (the parameter cap of NewLightnode).
TauCap == 1
\* Number of firings of the ticker in a behaviour of Lightnode.Run.
MaxFirings == 3

(***************************************************************************)
(* Program constants.                                                      *)
(***************************************************************************)
ErrorCodeMaxBatchSizeExceeded == -32001
ErrorCodeRateLimitExceeded == -32002
ErrorCodeForwardingError == -32003
ErrorCodeTimeout == -32004
ErrorCodeInvalidJSON == -32700
ErrorCodeInvalidRequest == -32600
ErrorCodeMethodNotFound == -32601
ErrorCodeInvalidParams == -32602
ErrorCodeInternal == -32603
ErrorCodeResultNotFound == -32604
StatusOK == 200
StatusBadRequest == 400
StatusNotFound == 404
StatusInternalServerError == 500

MethodQueryBlock == "ren_queryBlock"
MethodQueryBlocks == "ren_queryBlocks"
MethodQueryNumPeers == "ren_queryNumPeers"
MethodQueryPeers == "ren_queryPeers"
MethodQueryEpoch == "ren_queryEpoch"
MethodQueryStat == "ren_queryStat"
MethodSubmitTx == "ren_submitTx"
MethodQueryTx == "ren_queryTx"

\* jsonrpc.RPCs: the table of known methods.
RPCs ==
    { MethodQueryBlock, MethodQueryBlocks, MethodQueryNumPeers, MethodQueryPeers,
      MethodQueryEpoch, MethodQueryStat, MethodSubmitTx, MethodQueryTx }

(***************************************************************************)
(* Requests and responses.                                                 *)
(***************************************************************************)
\* The id of a response that carries none (the zero jsonrpc.Response).
NilID == -1
NoResult == ""
NoError == [code |-> 0, message |-> ""]

\* jsonrpc.NewError
NewError(code, message) == [code |-> code, message |-> message]

\* jsonrpc.NewResponse
NewResponse(id, result, err) ==
    [version |-> "2.0", id |-> id, result |-> result, error |-> err]

\* The zero value jsonrpc.Response{}.
ZeroResponse == [version |-> "", id |-> NilID, result |-> NoResult, error |-> NoError]

\* An errResponse that drops the message.
errResponseEmptyMessage(code, id, message) == NewResponse(id, NoResult, NewError(code, ""))

\* errResponse: a response that carries an error and no result.
errResponse(code, id, message) == NewResponse(id, NoResult, NewError(code, message))

\* The request shapes clients send (the id is added per batch position).
Shapes ==
    { [version |-> "2.0", method |-> MethodQueryBlock, params |-> "{n:1}"],
      [version |-> "2.0", method |-> MethodQueryBlock, params |-> "{n:2}"],
      [version |-> "2.0", method |-> MethodSubmitTx, params |-> "{tx:1}"],
      [version |-> "2.0", method |-> "method", params |-> "{n:1}"],
      [version |-> "1.0", method |-> MethodQueryBlock, params |-> "{n:1}"] }

\* The values of the URL query parameter "id" ("" when absent).
Hints == { "", "X" }

\* The HTTP bodies: not JSON ("invalid"), JSON that is neither an array of
\* requests nor a request ("scalar"), one request object, an array of requests.
Bodies ==
    { [kind |-> "invalid", shapes |-> <<>>], [kind |-> "scalar", shapes |-> <<>>] }
    \cup { [kind |-> "object", shapes |-> <<s>>] : s \in Shapes }
    \cup { [kind |-> "array", shapes |-> q] :
              q \in UNION { [1..n -> Shapes] : n \in 0..(MaxBatchSize + 1) } }

\* Before any POST: no body.
NoBody == [kind |-> "none", shapes |-> <<>>]

\* json.NewDecoder(r.Body).Decode(&rawMessage) succeeds on any JSON value.
DecodeBody(body) == body.kind # "invalid"
\* json.Unmarshal(rawMessage, &reqs) succeeds on an array of requests.
UnmarshalBatch(body) == body.kind = "array"

\* An unmarshalling into a request that accepts any JSON value.
UnmarshalRequestLenient(body) == body.kind \in { "object", "scalar" }

\* json.Unmarshal(rawMessage, &req) succeeds on a request object.
UnmarshalRequest(body) == body.kind = "object"

WithIDs(shapes) ==
    [i \in 1..Len(shapes) |->
        [version |-> shapes[i].version, id |-> i,
         method |-> shapes[i].method, params |-> shapes[i].params]]

(***************************************************************************)
(* The cacher's key and codec.                                             *)
(***************************************************************************)
\* hash(append(params, method...)): sha3 is taken to be injective on the data.
hash(params, method) == params \o method

\* A cache key that leaves the target hint out.
CacheIDWithoutHint(reqID, darknodeID) == << reqID, "" >>

\* reqID.String() + darknodeID: the first part has a fixed length of 32.
CacheID(reqID, darknodeID) == <<reqID, darknodeID>>

CacheIDs == { CacheID(hash(s.params, s.method), h) : s \in Shapes, h \in Hints }

\* kv.JSONCodec on a jsonrpc.Response: the fields in order, and back.
Encode(r) == <<r.version, r.id, r.result, r.error>>
\* A decoder that does not restore the id of the stored response.
DecodeWithoutID(t) == [version |-> t[1], id |-> NilID, result |-> t[3], error |-> t[4]]
Decode(t) == [version |-> t[1], id |-> t[2], result |-> t[3], error |-> t[4]]
NoEntry == <<>>

isCachable(method) ==
    CASE method \in { MethodQueryBlock, MethodQueryBlocks, MethodQueryNumPeers,
                      MethodQueryPeers, MethodQueryEpoch, MethodQueryStat } -> "true"
      [] method \in { MethodSubmitTx, MethodQueryTx } -> "false"
      [] OTHER -> "panic"

(***************************************************************************)
(* The state.                                                              *)
(***************************************************************************)
VARIABLES
    \* the POSTs still to come
    postsLeft,
    \* ingress: the handler of the current POST
    hpc,          \* "idle", "par" (inside phi.ParForAll), "done"
    darknodeID,   \* v.Get("id")
    rawMessage,   \* the body of the POST
    batchSize,    \* len(reqs)
    reqs,         \* the parsed batch
    responses,    \* the response slots
    tpc,          \* per request task: "start", "wait", "done"
    slotEnv,      \* per request task: the envelope it submitted (0: none)
    timer,        \* time.After channel: "off", "armed", "fired", "drained"
    ctxDone,      \* r.Context().Done() is closed
    httpOut,      \* what the handler wrote to the http.ResponseWriter
    allowCalls,   \* calls of rateLimiter.Allow made by the handler
    allowed,      \* per request task: what Allow returned ("none": not called)
    \* the envelopes (RequestWithResponder), in order of creation
    env,
    \* validator, cacher, dispatcher
    vbox, cbox, dbox,
    cache,        \* ttlCache
    addrs,        \* Dispatcher.addrs
    dcur,         \* the envelope Dispatcher.Handle is working on (0: none)
    di,           \* the loop counter i of Dispatcher.Handle
    backendCalls, \* calls of client.SendToDarknode
    crashed,      \* a task goroutine panicked: the process is gone
    \* store.MultiAddrStore
    store,        \* the table: the multi-address string under each ID
    addrsOut,     \* what the last call of RandomAddrs returned
    \* db.DB
    shiftin,      \* the table shiftin: the row under each hash
    shiftout,     \* the table shiftout
    now,          \* time.Now().Unix()
    pending,      \* what the last call of PendingTxs returned
    \* Lightnode.Run
    runPc,        \* "first" (line 74), "select" (line 80), "tick" (line 85), "returned"
    done,         \* the channel done is closed
    tickerC,      \* values in ticker.C (capacity 1)
    inputWriter,  \* Ticks in the resolver's input channel
    resolverUp,   \* resolver.Run(done) has not returned
    ticks,        \* Ticks sent by Run so far
    firings       \* firings of the ticker so far

vars ==
    << postsLeft, hpc, darknodeID, rawMessage, batchSize, reqs, responses, tpc,
       slotEnv, timer, ctxDone, httpOut, allowCalls, allowed, env, vbox, cbox,
       dbox, cache, addrs, dcur, di, backendCalls, crashed,
       store, addrsOut, shiftin, shiftout, now, pending,
       runPc, done, tickerC, inputWriter, resolverUp, ticks, firings >>

ingressVars ==
    << hpc, darknodeID, rawMessage, batchSize, reqs, responses, tpc, slotEnv, timer,
       ctxDone, httpOut, allowCalls, allowed >>
workVars == << postsLeft >>
storeVars == << store, addrsOut >>
dbVars == << shiftin, shiftout, now, pending >>
runVars == << runPc, done, tickerC, inputWriter, resolverUp, ticks, firings >>
libVars == << storeVars, dbVars, runVars >>
dispVars == << addrs, dcur, di, backendCalls >>

Envs == 1..Len(env)

\* NewRequestWithResponder, with the bookkeeping of the goroutines that later
\* hold the envelope.
NewRequestWithResponder(req, darknodeAddr) ==
    [ req |-> req, hint |-> darknodeAddr,
      responder |-> <<>>,     \* make(chan jsonrpc.Response, 1)
      writes |-> 0,           \* sends on responder so far
      writer |-> "none",      \* the stage that sent on responder
      out |-> ZeroResponse,   \* what it sent
      fresh |-> FALSE,        \* the entry this envelope inserted is within its TTL
      gpc |-> "none",         \* the cacher's goroutine: none, wait, send, done
      gresp |-> ZeroResponse, \* its local variable response
      iresp |-> <<>>,         \* the cacher's channel responder
      iwrites |-> 0,          \* sends on it so far
      sent |-> "no",          \* dispatcher.Send: no, ok, full
      fpc |-> "none",         \* the dispatcher's fan-out: none, running, closed
      calls |-> {},           \* targets whose call has not returned
      replies |-> <<>> ]      \* the channel responses

\* The addresses a dispatcher may hold.
Addrs == { "dn1" }
AddrLists == { <<>> } \cup { <<a>> : a \in Addrs }

(***************************************************************************)
(* store.MultiAddrStore and db.DB: the values they hold.                   *)
(***************************************************************************)
IDs == 1..MaxIDs
\* The network locations a darknode may announce.
Locations == { "ip4/10.0.0.1", "ip4/10.0.0.2" }
MultiAddresses == [id : IDs, loc : Locations]

\* addr.MultiAddress.String and addr.NewMultiAddressFromString.
String(a) == << "ren", a.id, a.loc >>
NewMultiAddressFromString(str) == [id |-> str[2], loc |-> str[3]]

\* A key of the table that holds no value.
NoValue == <<>>
\* What RandomAddrs(n) returned, with its argument.
NoAddrsOut == [n |-> 0, addrs |-> <<>>]

Hashes == 1..MaxTxs
TxStatusNil == 0
TxStatusConfirming == 1
TxStatusConfirmed == 2
\* The age in seconds from which PendingTxs leaves a tx out.
PendingExpiry == 86400
\* The instants of the clock that matter to PendingTxs.
Instants == { 0, PendingExpiry - 1, PendingExpiry, PendingExpiry + 1 }

\* A hash with no row in a table.
NoRow == [status |-> TxStatusNil, created_time |-> 0]
NilError == "nil"
\* What PendingTxs returned, with the failure the database had during the
\* call ("none": no failure).
NoPending == [txs |-> <<>>, err |-> NilError, fail |-> "none"]

(***************************************************************************)
(* Initial state: the state after construction (lightnode wiring; an       *)
(* address list for the dispatcher, empty as dispatcher.New leaves it or   *)
(* holding the darknodes the node was given).                              *)
(***************************************************************************)
Init ==
    /\ postsLeft = MaxPosts
    /\ hpc = "idle"
    /\ darknodeID = ""
    /\ rawMessage = NoBody
    /\ batchSize = 0
    /\ reqs = <<>>
    /\ responses = <<>>
    /\ tpc = <<>>
    /\ slotEnv = <<>>
    /\ timer = "off"
    /\ ctxDone = FALSE
    /\ httpOut = <<>>
    /\ allowCalls = 0
    /\ allowed = <<>>
    /\ env = <<>>
    /\ vbox = <<>>
    /\ cbox = <<>>
    /\ dbox = <<>>
    /\ cache = [k \in CacheIDs |-> NoEntry]
    /\ addrs \in AddrLists
    /\ dcur = 0
    /\ di = 1
    /\ backendCalls = 0
    /\ crashed = FALSE
    /\ store = [id \in IDs |-> NoValue]
    /\ addrsOut = NoAddrsOut
    /\ shiftin = [h \in Hashes |-> NoRow]
    /\ shiftout = [h \in Hashes |-> NoRow]
    /\ now = 0
    /\ pending = NoPending
    /\ runPc = "first"
    /\ done = FALSE
    /\ tickerC = 0
    /\ inputWriter = 0
    /\ resolverUp = TRUE
    /\ ticks = 0
    /\ firings = 0

(***************************************************************************)
(* Ingress: http.Server.handleFunc                                         *)
(***************************************************************************)
\* A writeError that answers a batch over the maximum size with status 400.
writeErrorBatchSize400(id, err) ==
    [ status |-> IF err.code \in { ErrorCodeInvalidJSON, ErrorCodeInvalidParams,
                                   ErrorCodeInvalidRequest,
                                   ErrorCodeMaxBatchSizeExceeded }
                 THEN StatusBadRequest
                 ELSE IF err.code \in { ErrorCodeMethodNotFound, ErrorCodeResultNotFound }
                 THEN StatusNotFound
                 ELSE StatusInternalServerError,
      single |-> TRUE,
      body |-> << NewResponse(id, NoResult, err) >> ]

\* writeError: the status code follows the error code.
writeError(id, err) ==
    [ status |-> IF err.code \in { ErrorCodeInvalidJSON, ErrorCodeInvalidParams,
                                   ErrorCodeInvalidRequest }
                 THEN StatusBadRequest
                 ELSE IF err.code \in { ErrorCodeMethodNotFound, ErrorCodeResultNotFound }
                 THEN StatusNotFound
                 ELSE StatusInternalServerError,
      single |-> TRUE,
      body |-> << NewResponse(id, NoResult, err) >> ]

\* A writeResponses that takes the status from the first response of any
\* batch.
writeResponsesFirstError(rs) ==
    IF Len(rs) >= 1 /\ rs[1].error # NoError
    THEN [status |-> writeError(rs[1].id, rs[1].error).status,
          single |-> Len(rs) = 1,
          body |-> IF Len(rs) = 1
                   THEN << NewResponse(rs[1].id, NoResult, rs[1].error) >> ELSE rs]
    ELSE [status |-> StatusOK, single |-> Len(rs) = 1, body |-> rs]

\* writeResponses: one object for one response, an array otherwise.
writeResponses(rs) ==
    IF Len(rs) = 1
    THEN IF rs[1].error # NoError
         THEN writeError(rs[1].id, rs[1].error)
         ELSE [status |-> StatusOK, single |-> TRUE, body |-> rs]
    ELSE [status |-> StatusOK, single |-> FALSE, body |-> rs]

\* The handler returns after writing `rs` without running any request task.
ReturnEarly(rs, size, id) ==
    /\ hpc' = "done"
    /\ darknodeID' = id
    /\ batchSize' = size
    /\ reqs' = <<>>
    /\ responses' = <<>>
    /\ tpc' = <<>>
    /\ slotEnv' = <<>>
    /\ timer' = "off"
    /\ ctxDone' = FALSE
    /\ httpOut' = << writeResponses(rs) >>
    /\ allowCalls' = 0
    /\ allowed' = <<>>
    /\ postsLeft' = postsLeft - 1
    /\ UNCHANGED << libVars, env, vbox, cbox, dbox, cache, dispVars, crashed >>

CanPost == hpc # "par" /\ postsLeft > 0 /\ ~crashed

\* A body that is not JSON, or JSON that is neither an array of requests nor a
\* request (lines 117-134).
HandleUnparsable ==
    /\ CanPost
    /\ \E body \in Bodies, id \in Hints :
          /\ \/ ~DecodeBody(body)
             \/ ~UnmarshalBatch(body) /\ ~UnmarshalRequest(body)
          /\ rawMessage' = body
          /\ ReturnEarly(
                 << errResponse(ErrorCodeInvalidJSON, 0,
                        IF ~DecodeBody(body)
                        THEN "lightnode could not decode JSON request"
                        ELSE "lightnode could not parse JSON request") >>,
                 0, id)

\* A batch of more than MaxBatchSize requests (lines 138-144).
HandleOversize ==
    /\ CanPost
    /\ \E body \in Bodies, id \in Hints :
          /\ DecodeBody(body)
          /\ UnmarshalBatch(body) \/ UnmarshalRequest(body)
          /\ Len(body.shapes) > MaxBatchSize
          /\ rawMessage' = body
          /\ ReturnEarly(
                 << errResponse(ErrorCodeMaxBatchSizeExceeded, 0,
                        "maximum batch size exceeded: maximum is " \o ToString(MaxBatchSize)
                            \o " but got " \o ToString(Len(body.shapes))) >>,
                 Len(body.shapes), id)

\* A request object or an array of at most MaxBatchSize requests: the timer is
\* started and one task per request is spawned (lines 124-150).
HandleBatch ==
    /\ CanPost
    /\ \E body \in Bodies, id \in Hints :
          /\ DecodeBody(body)
          /\ UnmarshalBatch(body) \/ UnmarshalRequest(body)
          /\ ~(Len(body.shapes) > MaxBatchSize)
          /\ hpc' = "par"
          /\ darknodeID' = id
          /\ rawMessage' = body
          /\ batchSize' = Len(body.shapes)
          /\ reqs' = WithIDs(body.shapes)
          /\ responses' = [i \in 1..Len(body.shapes) |-> ZeroResponse]
          /\ tpc' = [i \in 1..Len(body.shapes) |-> "start"]
          /\ slotEnv' = [i \in 1..Len(body.shapes) |-> 0]
          /\ timer' = "armed"
          /\ ctxDone' = FALSE
          /\ httpOut' = <<>>
          /\ allowCalls' = 0
          /\ allowed' = [i \in 1..Len(body.shapes) |-> "none"]
          /\ postsLeft' = postsLeft - 1
    /\ UNCHANGED << libVars, env, vbox, cbox, dbox, cache, dispVars, crashed >>

Slots == 1..Len(reqs)

SetSlot(i, r) ==
    /\ responses' = [responses EXCEPT ![i] = r]
    /\ tpc' = [tpc EXCEPT ![i] = "done"]

\* phi.Task.Send: a non-blocking send on the mailbox.
MailboxHasRoom(box) == Len(box) < MailboxCap

\* validator.Send(reqWithResponder) with room in the mailbox.
Submit(msg) ==
    /\ env' = Append(env, msg)
    /\ vbox' = Append(vbox, Len(env) + 1)

\* A task that asks the rate limiter before it looks at the method.
TaskStartLimitFirst(i) ==
    /\ hpc = "par" /\ ~crashed
    /\ tpc[i] = "start"
    /\ \E allow \in BOOLEAN :
       /\ allowCalls' = allowCalls + 1
       /\ allowed' = [allowed EXCEPT ![i] = IF allow THEN "yes" ELSE "no"]
       /\ IF reqs[i].method \notin RPCs
          THEN /\ SetSlot(i, errResponse(ErrorCodeMethodNotFound, reqs[i].id,
                                         "unsupported method"))
               /\ UNCHANGED << slotEnv, env, vbox >>
          ELSE IF ~allow
          THEN /\ SetSlot(i, errResponse(ErrorCodeRateLimitExceeded, reqs[i].id,
                                         "rate limit exceeded"))
               /\ UNCHANGED << slotEnv, env, vbox >>
          ELSE IF MailboxHasRoom(vbox)
          THEN /\ Submit(NewRequestWithResponder(reqs[i], darknodeID))
               /\ slotEnv' = [slotEnv EXCEPT ![i] = Len(env) + 1]
               /\ tpc' = [tpc EXCEPT ![i] = "wait"]
               /\ UNCHANGED responses
          ELSE /\ SetSlot(i, errResponse(ErrorCodeInternal, reqs[i].id,
                   "fail to send request to validator, too much back pressure in server"))
               /\ UNCHANGED << slotEnv, env, vbox >>
    /\ UNCHANGED << libVars, workVars, hpc, darknodeID, rawMessage, batchSize, reqs, timer, ctxDone,
                    httpOut, cbox, dbox, cache, dispVars, crashed >>

\* A task that does not return after the rate limiter's refusal and goes on
\* to the validator.
TaskStartNoReturnOnDeny(i) ==
    /\ hpc = "par" /\ ~crashed
    /\ tpc[i] = "start"
    /\ IF reqs[i].method \notin RPCs
       THEN /\ SetSlot(i, errResponse(ErrorCodeMethodNotFound, reqs[i].id,
                                      "unsupported method"))
            /\ UNCHANGED << allowCalls, allowed, slotEnv, env, vbox >>
       ELSE \E allow \in BOOLEAN :
            /\ allowCalls' = allowCalls + 1
            /\ allowed' = [allowed EXCEPT ![i] = IF allow THEN "yes" ELSE "no"]
            /\ IF MailboxHasRoom(vbox)
               THEN /\ Submit(NewRequestWithResponder(reqs[i], darknodeID))
                    /\ slotEnv' = [slotEnv EXCEPT ![i] = Len(env) + 1]
                    /\ tpc' = [tpc EXCEPT ![i] = "wait"]
                    /\ responses' =
                          IF allow THEN responses
                          ELSE [responses EXCEPT ![i] =
                                   errResponse(ErrorCodeRateLimitExceeded, reqs[i].id,
                                               "rate limit exceeded")]
               ELSE /\ SetSlot(i, errResponse(ErrorCodeInternal, reqs[i].id,
                        "fail to send request to validator, too much back pressure in server"))
                    /\ UNCHANGED << slotEnv, env, vbox >>
    /\ UNCHANGED << libVars, workVars, hpc, darknodeID, rawMessage, batchSize, reqs, timer, ctxDone,
                    httpOut, cbox, dbox, cache, dispVars, crashed >>

\* A task that does not look at the result of validator.Send and waits for
\* the reply to an envelope the mailbox did not take.
TaskStartIgnoringSend(i) ==
    /\ hpc = "par" /\ ~crashed
    /\ tpc[i] = "start"
    /\ IF reqs[i].method \notin RPCs
       THEN /\ SetSlot(i, errResponse(ErrorCodeMethodNotFound, reqs[i].id,
                                      "unsupported method"))
            /\ UNCHANGED << allowCalls, allowed, slotEnv, env, vbox >>
       ELSE \E allow \in BOOLEAN :
            /\ allowCalls' = allowCalls + 1
            /\ allowed' = [allowed EXCEPT ![i] = IF allow THEN "yes" ELSE "no"]
            /\ IF ~allow
               THEN /\ SetSlot(i, errResponse(ErrorCodeRateLimitExceeded, reqs[i].id,
                                              "rate limit exceeded"))
                    /\ UNCHANGED << slotEnv, env, vbox >>
               ELSE /\ env' = Append(env, NewRequestWithResponder(reqs[i], darknodeID))
                    /\ vbox' = IF MailboxHasRoom(vbox)
                               THEN Append(vbox, Len(env) + 1) ELSE vbox
                    /\ slotEnv' = [slotEnv EXCEPT ![i] = Len(env) + 1]
                    /\ tpc' = [tpc EXCEPT ![i] = "wait"]
                    /\ UNCHANGED responses
    /\ UNCHANGED << libVars, workVars, hpc, darknodeID, rawMessage, batchSize, reqs, timer, ctxDone,
                    httpOut, cbox, dbox, cache, dispVars, crashed >>

\* The task of request i up to its select (lines 151-177).
TaskStart(i) ==
    /\ hpc = "par" /\ ~crashed
    /\ tpc[i] = "start"
    /\ LET method == reqs[i].method IN
       IF method \notin RPCs
       THEN /\ SetSlot(i, errResponse(ErrorCodeMethodNotFound, reqs[i].id,
                                      "unsupported method"))
            /\ UNCHANGED << allowCalls, allowed, slotEnv, env, vbox >>
       ELSE \E allow \in BOOLEAN :
            /\ allowCalls' = allowCalls + 1
            /\ allowed' = [allowed EXCEPT ![i] = IF allow THEN "yes" ELSE "no"]
            /\ IF ~allow
               THEN /\ SetSlot(i, errResponse(ErrorCodeRateLimitExceeded, reqs[i].id,
                                              "rate limit exceeded"))
                    /\ UNCHANGED << slotEnv, env, vbox >>
               ELSE IF MailboxHasRoom(vbox)
               THEN /\ Submit(NewRequestWithResponder(reqs[i], darknodeID))
                    /\ slotEnv' = [slotEnv EXCEPT ![i] = Len(env) + 1]
                    /\ tpc' = [tpc EXCEPT ![i] = "wait"]
                    /\ UNCHANGED responses
               ELSE /\ SetSlot(i, errResponse(ErrorCodeInternal, reqs[i].id,
                        "fail to send request to validator, too much back pressure in server"))
                    /\ UNCHANGED << slotEnv, env, vbox >>
    /\ UNCHANGED << libVars, workVars, hpc, darknodeID, rawMessage, batchSize, reqs, timer, ctxDone,
                    httpOut, cbox, dbox, cache, dispVars, crashed >>

\* select, case <-timer (lines 179-180): the channel of time.After holds one
\* value, and the receive takes it.
TaskTimeout(i) ==
    /\ hpc = "par" /\ ~crashed
    /\ tpc[i] = "wait"
    /\ timer = "fired"
    /\ timer' = "drained"
    /\ SetSlot(i, errResponse(ErrorCodeTimeout, reqs[i].id,
                              "timeout for request=" \o ToString(reqs[i].id)
                                  \o ", method= " \o reqs[i].method))
    /\ UNCHANGED << libVars, workVars, hpc, darknodeID, rawMessage, batchSize, reqs, slotEnv, ctxDone,
                    httpOut, allowCalls, allowed, env, vbox, cbox, dbox, cache, dispVars,
                    crashed >>

\* select, case response := <-reqWithResponder.Responder (lines 181-182).
TaskReply(i) ==
    /\ hpc = "par" /\ ~crashed
    /\ tpc[i] = "wait"
    /\ env[slotEnv[i]].responder # <<>>
    /\ SetSlot(i, Head(env[slotEnv[i]].responder))
    /\ env' = [env EXCEPT ![slotEnv[i]].responder = Tail(@)]
    /\ UNCHANGED << libVars, workVars, hpc, darknodeID, rawMessage, batchSize, reqs, slotEnv, timer,
                    ctxDone, httpOut, allowCalls, allowed, vbox, cbox, dbox, cache, dispVars,
                    crashed >>

\* A cancellation that only one task can receive, as if Done() delivered a
\* value instead of being closed.
TaskCancelledOnce(i) ==
    /\ hpc = "par" /\ ~crashed
    /\ tpc[i] = "wait"
    /\ ctxDone
    /\ ctxDone' = FALSE
    /\ SetSlot(i, errResponse(ErrorCodeTimeout, reqs[i].id,
                              "context canceled by the client for request="
                                  \o ToString(reqs[i].id)
                                  \o ", method= " \o reqs[i].method))
    /\ UNCHANGED << libVars, workVars, hpc, darknodeID, rawMessage, batchSize, reqs, slotEnv, timer,
                    httpOut, allowCalls, allowed, env, vbox, cbox, dbox, cache,
                    dispVars, crashed >>

\* select, case <-r.Context().Done() (lines 183-184): a closed channel.
TaskCancelled(i) ==
    /\ hpc = "par" /\ ~crashed
    /\ tpc[i] = "wait"
    /\ ctxDone
    /\ SetSlot(i, errResponse(ErrorCodeTimeout, reqs[i].id,
                              "context canceled by the client for request="
                                  \o ToString(reqs[i].id)
                                  \o ", method= " \o reqs[i].method))
    /\ UNCHANGED << libVars, workVars, hpc, darknodeID, rawMessage, batchSize, reqs, slotEnv, timer,
                    ctxDone, httpOut, allowCalls, allowed, env, vbox, cbox, dbox, cache,
                    dispVars, crashed >>

\* phi.ParForAll has returned: the responses are written and the handler
\* returns, which ends the life of its timer and of the request's context
\* (lines 188-190).
WriteBatch ==
    /\ hpc = "par" /\ ~crashed
    /\ \A i \in Slots : tpc[i] = "done"
    /\ httpOut' = Append(httpOut, writeResponses(responses))
    /\ hpc' = "done"
    /\ timer' = "off"
    /\ ctxDone' = FALSE
    /\ UNCHANGED << libVars, workVars, darknodeID, rawMessage, batchSize, reqs, responses, tpc, slotEnv,
                    allowCalls, allowed, env, vbox, cbox, dbox, cache, dispVars,
                    crashed >>

\* The runtime delivers the expiry of Options.Timeout to the timer channel
\* (an expiry no task is left to see changes nothing and is left out).
TimerFire ==
    /\ hpc = "par" /\ ~crashed
    /\ timer = "armed"
    /\ \E i \in Slots : tpc[i] # "done"
    /\ timer' = "fired"
    /\ UNCHANGED << libVars, workVars, hpc, darknodeID, rawMessage, batchSize, reqs, responses, tpc,
                    slotEnv, ctxDone, httpOut, allowCalls, allowed, env, vbox, cbox, dbox,
                    cache, dispVars, crashed >>

\* The client goes away: net/http cancels the request's context (looked at
\* only by a task that has not finished).
ClientCancel ==
    /\ hpc = "par" /\ ~crashed
    /\ ~ctxDone
    /\ \E i \in Slots : tpc[i] # "done"
    /\ ctxDone' = TRUE
    /\ UNCHANGED << libVars, workVars, hpc, darknodeID, rawMessage, batchSize, reqs, responses, tpc,
                    slotEnv, timer, httpOut, allowCalls, allowed, env, vbox, cbox, dbox,
                    cache, dispVars, crashed >>

(***************************************************************************)
(* Validator.Handle: version, method and parameter checks, then forward.   *)
(***************************************************************************)
\* The schema a method's parameters are decoded into.
ParamsSchema(method) ==
    IF method \in { MethodSubmitTx, MethodQueryTx } THEN "tx" ELSE "n"

\* Whether the raw parameters decode into the method's schema.
ParamsMatch(method, params) ==
    \/ ParamsSchema(method) = "tx" /\ params \in { "{tx:1}" }
    \/ ParamsSchema(method) = "n" /\ params \in { "{n:1}", "{n:2}" }

\* A validator that looks at the method before the version.
isValidMethodFirst(req) ==
    IF req.method \notin RPCs
    THEN NewError(ErrorCodeMethodNotFound, "unsupported method " \o req.method)
    ELSE IF req.version # "2.0"
    THEN NewError(ErrorCodeInvalidRequest,
                  "invalid jsonrpc field: expected \"2.0\", got \"" \o req.version \o "\"")
    ELSE IF ~ParamsMatch(req.method, req.params)
    THEN NewError(ErrorCodeInvalidParams,
                  "invalid parameters in request: parameters object does not match method")
    ELSE NoError

\* The first failing check decides the error; NoError when all pass.
isValid(req) ==
    IF req.version # "2.0"
    THEN NewError(ErrorCodeInvalidRequest,
                  "invalid jsonrpc field: expected \"2.0\", got \"" \o req.version \o "\"")
    ELSE IF req.method \notin RPCs
    THEN NewError(ErrorCodeMethodNotFound, "unsupported method " \o req.method)
    ELSE IF ~ParamsMatch(req.method, req.params)
    THEN NewError(ErrorCodeInvalidParams,
                  "invalid parameters in request: parameters object does not match method")
    ELSE NoError

\* A reply channel without a buffer: a send with no receiver at hand waits.
ChanHasRoomUnbuffered(ch) == Len(ch) < 0

\* A send on a reply channel of capacity 1.
ChanHasRoom(ch) == Len(ch) < 1

\* msg.Responder <- r, by stage `who`.
Respond(n, r, who) ==
    [env EXCEPT ![n].responder = Append(@, r),
                ![n].writes = @ + 1,
                ![n].writer = who,
                ![n].out = r]

\* A validator that does not return after the error response and forwards
\* the envelope as well.
ValidatorRejectAndForward ==
    /\ ~crashed
    /\ vbox # <<>>
    /\ LET n == Head(vbox) IN
       /\ isValid(env[n].req) # NoError
       /\ ChanHasRoom(env[n].responder)
       /\ MailboxHasRoom(cbox)
       /\ env' = Respond(n, NewResponse(env[n].req.id, NoResult, isValid(env[n].req)),
                         "validator")
       /\ cbox' = Append(cbox, n)
    /\ vbox' = Tail(vbox)
    /\ UNCHANGED << libVars, workVars, ingressVars, dbox, cache, dispVars, crashed >>

\* A validator that acknowledges on the reply channel what it forwards.
ValidatorForwardAndReply ==
    /\ ~crashed
    /\ vbox # <<>>
    /\ isValid(env[Head(vbox)].req) = NoError
    /\ MailboxHasRoom(cbox)
    /\ env' = Respond(Head(vbox), NewResponse(env[Head(vbox)].req.id, "ok", NoError),
                      "validator")
    /\ cbox' = Append(cbox, Head(vbox))
    /\ vbox' = Tail(vbox)
    /\ UNCHANGED << libVars, workVars, ingressVars, dbox, cache, dispVars, crashed >>

ValidatorReject ==
    /\ ~crashed
    /\ vbox # <<>>
    /\ LET n == Head(vbox) IN
       /\ isValid(env[n].req) # NoError
       /\ ChanHasRoom(env[n].responder)
       /\ env' = Respond(n, NewResponse(env[n].req.id, NoResult, isValid(env[n].req)),
                         "validator")
    /\ vbox' = Tail(vbox)
    /\ UNCHANGED << libVars, workVars, ingressVars, cbox, dbox, cache, dispVars, crashed >>

ValidatorForward ==
    /\ ~crashed
    /\ vbox # <<>>
    /\ isValid(env[Head(vbox)].req) = NoError
    /\ MailboxHasRoom(cbox)
    /\ cbox' = Append(cbox, Head(vbox))
    /\ vbox' = Tail(vbox)
    /\ UNCHANGED << libVars, workVars, ingressVars, env, dbox, cache, dispVars, crashed >>

(***************************************************************************)
(* Cacher.Handle and the goroutine it starts on a miss.                    *)
(***************************************************************************)
reqIDOf(n) == hash(env[n].req.params, env[n].req.method)
KeyOf(n) == CacheID(reqIDOf(n), env[n].hint)

\* Cacher.get: the entry under reqID.String() + darknodeID, decoded.
get(reqID, id) ==
    IF cache[CacheID(reqID, id)] # NoEntry
    THEN [response |-> Decode(cache[CacheID(reqID, id)]), cached |-> TRUE]
    ELSE [response |-> ZeroResponse, cached |-> FALSE]

\* An insert that keeps only the responses of the methods that are not
\* cacheable.
insertUnlessCachable(reqID, id, response, method) ==
    IF isCachable(method) = "true"
    THEN cache
    ELSE [cache EXCEPT ![CacheID(reqID, id)] = Encode(response)]

\* An insert that leaves out the responses that carry an error.
insertUnlessError(reqID, id, response, method) ==
    IF response.error # NoError
    THEN cache
    ELSE [cache EXCEPT ![CacheID(reqID, id)] = Encode(response)]

\* Cacher.insert: the method is not looked at.
insert(reqID, id, response, method) ==
    [cache EXCEPT ![CacheID(reqID, id)] = Encode(response)]

\* A cacher that serves a hit only when no goroutine of an earlier miss is
\* still running, as if Handle waited for the dispatcher itself.
CacherHitAfterMisses ==
    /\ ~crashed
    /\ cbox # <<>>
    /\ \A e \in Envs : env[e].gpc \notin { "wait", "send" }
    /\ LET n == Head(cbox)
           got == get(reqIDOf(n), env[n].hint)
       IN  /\ isCachable(env[n].req.method) = "true"
           /\ got.cached
           /\ ChanHasRoom(env[n].responder)
           /\ env' = Respond(n, got.response, "cache")
    /\ cbox' = Tail(cbox)
    /\ UNCHANGED << libVars, workVars, ingressVars, vbox, dbox, cache, dispVars, crashed >>

\* Lines 60-63: a cacheable method with an entry in the cache.
CacherHit ==
    /\ ~crashed
    /\ cbox # <<>>
    /\ LET n == Head(cbox)
           got == get(reqIDOf(n), env[n].hint)
       IN  /\ isCachable(env[n].req.method) = "true"
           /\ got.cached
           /\ ChanHasRoom(env[n].responder)
           /\ env' = Respond(n, got.response, "cache")
    /\ cbox' = Tail(cbox)
    /\ UNCHANGED << libVars, workVars, ingressVars, vbox, dbox, cache, dispVars, crashed >>

\* Lines 64-81: the envelope goes to the dispatcher with a fresh reply channel
\* (the result of Send is not looked at) and a goroutine waits for the reply.
\* isCachable panics on a method it does not know.
CacherMiss ==
    /\ ~crashed
    /\ cbox # <<>>
    /\ LET n == Head(cbox)
           got == get(reqIDOf(n), env[n].hint)
       IN  /\ ~(isCachable(env[n].req.method) = "true" /\ got.cached)
           /\ IF isCachable(env[n].req.method) = "panic"
              THEN /\ crashed' = TRUE
                   /\ UNCHANGED << env, dbox >>
              ELSE /\ crashed' = crashed
                   /\ IF MailboxHasRoom(dbox)
                      THEN /\ dbox' = Append(dbox, n)
                           /\ env' = [env EXCEPT ![n].gpc = "wait", ![n].sent = "ok"]
                      ELSE /\ dbox' = dbox
                           /\ env' = [env EXCEPT ![n].gpc = "wait", ![n].sent = "full"]
    /\ cbox' = Tail(cbox)
    /\ UNCHANGED << libVars, workVars, ingressVars, vbox, cache, dispVars >>

\* A goroutine that takes the dispatcher's reply and goes on to answer
\* without inserting it.
CacherAwaitWithoutInsert(n) ==
    /\ ~crashed
    /\ env[n].gpc = "wait"
    /\ env[n].iresp # <<>>
    /\ LET response == Head(env[n].iresp) IN
       /\ cache' = cache
       /\ env' = [env EXCEPT ![n].iresp = Tail(@),
                             ![n].gresp = response,
                             ![n].fresh = TRUE,
                             ![n].gpc = "send"]
    /\ UNCHANGED << libVars, workVars, ingressVars, vbox, cbox, dbox, dispVars, crashed >>

\* Lines 76-78: response := <-responder, then the insert.
CacherAwait(n) ==
    /\ ~crashed
    /\ env[n].gpc = "wait"
    /\ env[n].iresp # <<>>
    /\ LET response == Head(env[n].iresp) IN
       /\ cache' = insert(reqIDOf(n), env[n].hint, response, env[n].req.method)
       /\ env' = [env EXCEPT ![n].iresp = Tail(@),
                             ![n].gresp = response,
                             ![n].fresh = TRUE,
                             ![n].gpc = "send"]
    /\ UNCHANGED << libVars, workVars, ingressVars, vbox, cbox, dbox, dispVars, crashed >>

\* Line 79: msg.Responder <- response.
CacherRespond(n) ==
    /\ ~crashed
    /\ env[n].gpc = "send"
    /\ ChanHasRoom(env[n].responder)
    /\ env' = [Respond(n, env[n].gresp, "cacher") EXCEPT ![n].gpc = "done"]
    /\ UNCHANGED << libVars, workVars, ingressVars, vbox, cbox, dbox, cache, dispVars, crashed >>

\* The TTL of an entry passes (kv.NewTTLCache).
Expire(k) ==
    /\ ~crashed
    /\ cache[k] # NoEntry
    /\ cache' = [cache EXCEPT ![k] = NoEntry]
    /\ env' = [n \in Envs |->
                  IF KeyOf(n) = k THEN [env[n] EXCEPT !.fresh = FALSE] ELSE env[n]]
    /\ UNCHANGED << libVars, workVars, ingressVars, vbox, cbox, dbox, dispVars, crashed >>

(***************************************************************************)
(* Dispatcher.Handle, its fan-out goroutine and the darknodes.             *)
(***************************************************************************)
\* Dispatcher.multiAddrs: the first address, whatever the method.
multiAddrs(method) == << addrs[1] >>

\* An iterator that is done at the first reply but hands back the zero
\* response instead of it.
updateDroppingReply(res, final) == [done |-> TRUE, response |-> ZeroResponse]

\* FirstResponseIterator.update
update(res, final) == [done |-> TRUE, response |-> res]

\* A dispatcher that takes the next message while the fan-out of the current
\* one is still running, as if Handle were started in a goroutine of its own.
DispatcherReceiveConcurrent ==
    /\ ~crashed
    /\ dbox # <<>>
    /\ LET n == Head(dbox) IN
       IF addrs = <<>>
       THEN /\ crashed' = TRUE
            /\ UNCHANGED << env, dcur, di, backendCalls >>
       ELSE LET targets == multiAddrs(env[n].req.method) IN
            /\ env' = [env EXCEPT ![n].fpc = "running",
                                  ![n].calls = 1..Len(targets),
                                  ![n].replies = <<>>]
            /\ dcur' = n
            /\ di' = 1
            /\ backendCalls' = backendCalls + Len(targets)
            /\ crashed' = crashed
    /\ dbox' = Tail(dbox)
    /\ UNCHANGED << libVars, workVars, ingressVars, vbox, cbox, cache, addrs >>

\* Lines 33-54: the message is taken from the mailbox, the targets are chosen
\* (an index out of range on an empty address list) and the calls are started.
DispatcherReceive ==
    /\ ~crashed
    /\ dcur = 0
    /\ dbox # <<>>
    /\ LET n == Head(dbox) IN
       IF addrs = <<>>
       THEN /\ crashed' = TRUE
            /\ UNCHANGED << env, dcur, di, backendCalls >>
       ELSE LET targets == multiAddrs(env[n].req.method) IN
            /\ env' = [env EXCEPT ![n].fpc = "running",
                                  ![n].calls = 1..Len(targets),
                                  ![n].replies = <<>>]
            /\ dcur' = n
            /\ di' = 1
            /\ backendCalls' = backendCalls + Len(targets)
            /\ crashed' = crashed
    /\ dbox' = Tail(dbox)
    /\ UNCHANGED << libVars, workVars, ingressVars, vbox, cbox, cache, addrs >>

\* What a darknode answers to a request it accepts.
DarknodeResponse(req) == NewResponse(req.id, "result", NoError)

\* What a darknode answers to a request it refuses: a JSON-RPC response
\* that carries an error, which SendToDarknode returns with a nil Go error.
DarknodeError(req) ==
    NewResponse(req.id, NoResult, NewError(ErrorCodeResultNotFound, "result not found"))

\* The outcomes of client.SendToDarknode as line 46 sees them: a response
\* of the darknode, or the zero response written when the call failed.
BackendOutcomes(req) == {DarknodeResponse(req), DarknodeError(req), ZeroResponse}

\* A channel of replies that has no buffer.
ResponsesCapZero(n) == 0

\* Line 39: make(chan jsonrpc.Response, len(addrs)), for the fan-out of n.
ResponsesCap(n) == Len(multiAddrs(env[n].req.method))

\* Lines 43-53: client.SendToDarknode returns for target t, with a response
\* or with an error, and the task sends on responses; the send waits for
\* room in the channel. The last task to return lets co.ParForAll return,
\* and the goroutine, which has nothing to wait for in between, closes the
\* channel.
BackendReturn(n, t) ==
    /\ ~crashed
    /\ t \in env[n].calls
    /\ Len(env[n].replies) < ResponsesCap(n)
    /\ \E r \in BackendOutcomes(env[n].req) :
          env' = [env EXCEPT
                     ![n].calls = @ \ {t},
                     ![n].replies = Append(@, r),
                     ![n].fpc = IF env[n].calls = {t} THEN "closed" ELSE @]
    /\ UNCHANGED << libVars, workVars, ingressVars, vbox, cbox, dbox, cache, dispVars, crashed >>

\* msg.Responder <- r in the dispatcher: the channel the cacher made.
ReplyToCacher(n, r) ==
    [env EXCEPT ![n].iresp = Append(@, r), ![n].iwrites = @ + 1]

\* A loop that goes on after the iterator is done, and so reaches the send
\* after the loop as well.
DispatcherLoopWithoutReturn ==
    /\ ~crashed
    /\ dcur # 0
    /\ LET n == dcur IN
       IF env[n].replies # <<>>
       THEN LET u == update(Head(env[n].replies),
                            di = Len(multiAddrs(env[n].req.method)))
            IN  /\ u.done => ChanHasRoom(env[n].iresp)
                /\ env' = IF u.done
                          THEN [ReplyToCacher(n, u.response) EXCEPT
                                    ![n].replies = Tail(@)]
                          ELSE [env EXCEPT ![n].replies = Tail(@)]
                /\ di' = di + 1
                /\ dcur' = dcur
       ELSE /\ env[n].fpc = "closed"
            /\ ChanHasRoom(env[n].iresp)
            /\ env' = ReplyToCacher(n, ZeroResponse)
            /\ dcur' = 0
            /\ di' = di
    /\ UNCHANGED << libVars, workVars, ingressVars, vbox, cbox, dbox, cache, addrs,
                    backendCalls, crashed >>

\* Lines 56-67: one turn of `for res := range responses`, or the send after
\* the loop when the channel is closed and empty.
DispatcherLoop ==
    /\ ~crashed
    /\ dcur # 0
    /\ LET n == dcur IN
       IF env[n].replies # <<>>
       THEN LET u == update(Head(env[n].replies),
                            di = Len(multiAddrs(env[n].req.method)))
            IN  IF u.done
                THEN /\ ChanHasRoom(env[n].iresp)
                     /\ env' = [ReplyToCacher(n, u.response) EXCEPT
                                    ![n].replies = Tail(@)]
                     /\ dcur' = 0
                     /\ di' = di
                ELSE /\ env' = [env EXCEPT ![n].replies = Tail(@)]
                     /\ di' = di + 1
                     /\ dcur' = dcur
       ELSE /\ env[n].fpc = "closed"
            /\ ChanHasRoom(env[n].iresp)
            /\ env' = ReplyToCacher(n, ZeroResponse)
            /\ dcur' = 0
            /\ di' = di
    /\ UNCHANGED << libVars, workVars, ingressVars, vbox, cbox, dbox, cache, addrs,
                    backendCalls, crashed >>

(***************************************************************************)
(* store.MultiAddrStore                                                    *)
(***************************************************************************)
pipelineVars ==
    << postsLeft, ingressVars, env, vbox, cbox, dbox, cache, dispVars, crashed >>

\* MultiAddrStore.Insert: the string of the address under the string of its ID.
StoreInsert(a) ==
    /\ store' = [store EXCEPT ![a.id] = String(a)]
    /\ UNCHANGED << addrsOut, dbVars, runVars, pipelineVars >>

\* MultiAddrStore.Delete: the key of the address's ID is removed.
StoreDelete(a) ==
    /\ store' = [store EXCEPT ![a.id] = NoValue]
    /\ UNCHANGED << addrsOut, dbVars, runVars, pipelineVars >>

\* The keys the table's iterator yields.
Keys == { id \in IDs : store[id] # NoValue }
\* MultiAddrStore.Size
Size == Cardinality(Keys)
\* The orders in which the elements of S can be enumerated.
Orders(S) ==
    { q \in [1..Cardinality(S) -> S] :
         \A i, j \in 1..Cardinality(S) : i # j => q[i] # q[j] }

\* MultiAddrStore.Get
Get(id) == NewMultiAddressFromString(store[id])
\* MultiAddrStore.AddrsAll when the iterator yields the keys in `order`.
AddrsAll(order) == [i \in 1..Len(order) |-> Get(order[i])]
\* rand.Shuffle with the permutation it draws.
Shuffle(all, perm) == [i \in 1..Len(all) |-> all[perm[i]]]

\* A RandomAddrs that does not cut the list to n.
RandomAddrsUncut(all, n) == all

\* Lines 114-117 of RandomAddrs, `all` being the shuffled list.
RandomAddrs(all, n) == IF Len(all) < n THEN all ELSE SubSeq(all, 1, n)

\* A call of RandomAddrs(n).
StoreRandomAddrs ==
    /\ \E n \in 0..(MaxIDs + 1), order \in Orders(Keys), perm \in Orders(1..Size) :
          addrsOut' = [n |-> n, addrs |-> RandomAddrs(Shuffle(AddrsAll(order), perm), n)]
    /\ UNCHANGED << store, dbVars, runVars, pipelineVars >>

StoreNext ==
    \/ \E a \in MultiAddresses : StoreInsert(a)
    \/ \E a \in MultiAddresses : StoreDelete(a)
    \/ StoreRandomAddrs

StoreSpec == Init /\ [][StoreNext]_vars

(***************************************************************************)
(* db.DB                                                                   *)
(***************************************************************************)
\* hex.EncodeToString(tx.Hash[:]) and stringToB32.
EncodeToString(h) == << "hex", h >>
stringToB32(str) == str[2]

\* INSERT ... VALUES ($1, 1, $2, ...) ON CONFLICT DO NOTHING
InsertRow(table, h) ==
    IF table[h] # NoRow THEN table
    ELSE [table EXCEPT ![h] = [status |-> TxStatusConfirming, created_time |-> now]]

InsertShiftIn(h) ==
    /\ shiftin' = InsertRow(shiftin, h)
    /\ UNCHANGED << shiftout, now, pending, storeVars, runVars, pipelineVars >>

InsertShiftOut(h) ==
    /\ shiftout' = InsertRow(shiftout, h)
    /\ UNCHANGED << shiftin, now, pending, storeVars, runVars, pipelineVars >>

\* UPDATE ... SET status = $1 WHERE hash = $2
UpdateStatus(table, h) ==
    IF table[h] = NoRow THEN table ELSE [table EXCEPT ![h].status = TxStatusConfirmed]

\* DB.ConfirmTx
ConfirmTx(h) ==
    /\ shiftin' = UpdateStatus(shiftin, h)
    /\ shiftout' = UpdateStatus(shiftout, h)
    /\ UNCHANGED << now, pending, storeVars, runVars, pipelineVars >>

\* DELETE FROM ... WHERE $1 - created_time > $2
DeleteExpired(table, expiry) ==
    [h \in Hashes |->
        IF table[h] # NoRow /\ now - table[h].created_time > expiry
        THEN NoRow ELSE table[h]]

\* The expiries Prune is called with, in seconds.
Expiries == { 0, PendingExpiry }

\* DB.Prune
Prune(expiry) ==
    /\ shiftin' = DeleteExpired(shiftin, expiry)
    /\ shiftout' = DeleteExpired(shiftout, expiry)
    /\ UNCHANGED << now, pending, storeVars, runVars, pipelineVars >>

\* DB.Confirmed: the status of the row of shiftin, of the row of shiftout
\* when shiftin has none (sql.ErrNoRows), compared with TxStatusConfirmed.
Confirmed(h) ==
    IF shiftin[h] # NoRow THEN shiftin[h].status = TxStatusConfirmed
    ELSE IF shiftout[h] # NoRow THEN shiftout[h].status = TxStatusConfirmed
    ELSE FALSE

\* The clock moves on.
Tick ==
    /\ \E t \in Instants : t > now /\ now' = t
    /\ UNCHANGED << shiftin, shiftout, pending, storeVars, runVars, pipelineVars >>

\* WHERE status = $1 AND $2 - created_time < 86400
Selected(table) ==
    { h \in Hashes : /\ table[h] # NoRow
                     /\ table[h].status = TxStatusConfirming
                     /\ now - table[h].created_time < PendingExpiry }

\* constructShiftIn and constructShiftOut on the scanned row of a hash.
constructShiftIn(str) == [hash |-> stringToB32(str), to |-> "ShiftIn"]
constructShiftOut(str) == [hash |-> stringToB32(str), to |-> "ShiftOut"]

\* What the database can do wrong during one call.
Failures ==
    { "none", "shiftin query", "shiftin scan", "shiftin rows",
      "shiftout query", "shiftout scan", "shiftout rows" }

\* DB.PendingTxs when the queries yield the rows in the orders ins and outs
\* and the database fails as `fail` says: the value of txs and of the error
\* returned. A failing rows.Next ends the loop and shows in rows.Err(); line
\* 464 then returns the variable err, which the last Scan left nil.
PendingTxs(ins, outs, fail) ==
    LET inTxs == [i \in 1..Len(ins) |-> constructShiftIn(EncodeToString(ins[i]))]
        outTxs == [i \in 1..Len(outs) |-> constructShiftOut(EncodeToString(outs[i]))]
    IN  CASE fail = "shiftin query" -> [txs |-> <<>>, err |-> fail]
          [] fail = "shiftin scan" -> [txs |-> <<>>, err |-> fail]
          [] fail = "shiftin rows" -> [txs |-> <<>>, err |-> NilError]
          [] fail = "shiftout query" -> [txs |-> <<>>, err |-> fail]
          [] fail = "shiftout scan" -> [txs |-> <<>>, err |-> fail]
          [] fail = "shiftout rows" -> [txs |-> inTxs, err |-> fail]
          [] OTHER -> [txs |-> inTxs \o outTxs, err |-> NilError]

\* A call of PendingTxs.
CallPendingTxs ==
    /\ \E ins \in Orders(Selected(shiftin)), outs \in Orders(Selected(shiftout)),
          fail \in Failures :
          LET r == PendingTxs(ins, outs, fail)
          IN  pending' = [txs |-> r.txs, err |-> r.err, fail |-> fail]
    /\ UNCHANGED << shiftin, shiftout, now, storeVars, runVars, pipelineVars >>

DBNext ==
    \/ \E h \in Hashes : InsertShiftIn(h)
    \/ \E h \in Hashes : InsertShiftOut(h)
    \/ \E h \in Hashes : ConfirmTx(h)
    \/ \E expiry \in Expiries : Prune(expiry)
    \/ Tick
    \/ CallPendingTxs

DBSpec == Init /\ [][DBNext]_vars

(***************************************************************************)
(* Lightnode.Run, its ticker and the resolver task it feeds.               *)
(***************************************************************************)
\* A send on the resolver's input channel can complete.
InputHasRoom == inputWriter < TauCap

\* Line 74: the Tick sent when Run starts; the send waits for room.
RunSendFirst ==
    /\ runPc = "first"
    /\ InputHasRoom
    /\ inputWriter' = inputWriter + 1
    /\ ticks' = ticks + 1
    /\ runPc' = "select"
    /\ UNCHANGED << done, tickerC, resolverUp, firings, storeVars, dbVars, pipelineVars >>

\* Run waits in a send that cannot complete.
RunBlocked == runPc \in { "first", "tick" } /\ ~InputHasRoom

\* The ticker of line 76 fires: ticker.C holds one value, and a firing that
\* finds it full is dropped. Five minutes pass between two firings: Run has
\* taken the value before the next firing unless it is waiting in a send.
TickerFire ==
    /\ runPc # "returned"
    /\ firings < MaxFirings
    /\ tickerC = 0 \/ RunBlocked
    /\ firings' = firings + 1
    /\ tickerC' = 1
    /\ UNCHANGED << runPc, done, inputWriter, resolverUp, ticks, storeVars, dbVars,
                    pipelineVars >>

\* select, case <-ticker.C (lines 83-84).
RunTakeTick ==
    /\ runPc = "select"
    /\ tickerC = 1
    /\ tickerC' = 0
    /\ runPc' = "tick"
    /\ UNCHANGED << done, inputWriter, resolverUp, ticks, firings, storeVars, dbVars,
                    pipelineVars >>

\* Line 85: the Tick of a firing; the send waits for room.
RunSendTick ==
    /\ runPc = "tick"
    /\ InputHasRoom
    /\ inputWriter' = inputWriter + 1
    /\ ticks' = ticks + 1
    /\ runPc' = "select"
    /\ UNCHANGED << done, tickerC, resolverUp, firings, storeVars, dbVars, pipelineVars >>

\* select, case <-done (lines 81-82).
RunReturn ==
    /\ runPc = "select"
    /\ done
    /\ runPc' = "returned"
    /\ UNCHANGED << done, tickerC, inputWriter, resolverUp, ticks, firings, storeVars,
                    dbVars, pipelineVars >>

\* The caller of Run closes done.
CloseDone ==
    /\ ~done
    /\ done' = TRUE
    /\ UNCHANGED << runPc, tickerC, inputWriter, resolverUp, ticks, firings, storeVars,
                    dbVars, pipelineVars >>

\* resolver.Run(done), started at line 73: the task takes a message from its
\* input channel.
ResolverReceive ==
    /\ resolverUp
    /\ inputWriter > 0
    /\ inputWriter' = inputWriter - 1
    /\ UNCHANGED << runPc, done, tickerC, resolverUp, ticks, firings, storeVars, dbVars,
                    pipelineVars >>

\* resolver.Run(done) returns once done is closed.
ResolverReturn ==
    /\ resolverUp
    /\ done
    /\ resolverUp' = FALSE
    /\ UNCHANGED << runPc, done, tickerC, inputWriter, ticks, firings, storeVars, dbVars,
                    pipelineVars >>

\* The steps of Run and of the resolver; the ticker and the caller are not
\* obliged to act.
RunSystem ==
    \/ RunSendFirst
    \/ RunTakeTick
    \/ RunSendTick
    \/ RunReturn
    \/ ResolverReceive
    \/ ResolverReturn

RunNext ==
    \/ RunSystem
    \/ TickerFire
    \/ CloseDone

RunSpec == Init /\ [][RunNext]_vars
\* Run and the resolver are scheduled; once done is closed, the select of
\* line 80 does not pass over the case of done for ever.
FairRunSpec == RunSpec /\ WF_vars(RunSystem) /\ SF_vars(RunReturn)

(***************************************************************************)
(* The specification.                                                      *)
(***************************************************************************)
Next ==
    \/ HandleUnparsable
    \/ HandleOversize
    \/ HandleBatch
    \/ \E i \in Slots : TaskStart(i)
    \/ \E i \in Slots : TaskTimeout(i)
    \/ \E i \in Slots : TaskReply(i)
    \/ \E i \in Slots : TaskCancelled(i)
    \/ WriteBatch
    \/ TimerFire
    \/ ClientCancel
    \/ ValidatorReject
    \/ ValidatorForward
    \/ CacherHit
    \/ CacherMiss
    \/ \E n \in Envs : CacherAwait(n)
    \/ \E n \in Envs : CacherRespond(n)
    \/ \E k \in CacheIDs : Expire(k)
    \/ DispatcherReceive
    \/ \E n \in Envs : \E t \in env[n].calls : BackendReturn(n, t)
    \/ DispatcherLoop

Spec == Init /\ [][Next]_vars

\* The steps the server takes by itself: every goroutine that can run does
\* run, and the runtime delivers the expiry of the timer.  Clients, darknodes
\* and the cache's clock are not obliged to act.
SystemNext ==
    \/ \E i \in Slots : TaskStart(i)
    \/ \E i \in Slots : TaskTimeout(i)
    \/ \E i \in Slots : TaskReply(i)
    \/ \E i \in Slots : TaskCancelled(i)
    \/ WriteBatch
    \/ TimerFire
    \/ ValidatorReject
    \/ ValidatorForward
    \/ CacherHit
    \/ CacherMiss
    \/ \E n \in Envs : CacherAwait(n)
    \/ \E n \in Envs : CacherRespond(n)
    \/ DispatcherReceive
    \/ DispatcherLoop

FairSpec == Spec /\ WF_vars(SystemNext)

(***************************************************************************)
(* The pipeline on its own: validator, cacher and dispatcher under the     *)
(* envelopes that the request tasks of any number of handlers submit.  A   *)
(* reply channel has room for the one reply of its envelope, so the        *)
(* pipeline never waits for a task to read it.                             *)
(***************************************************************************)
\* The requests of the tasks that get past the ingress checks.
PipeShapes == { s \in Shapes : s.method \in RPCs }

\* Lines 171-172 of some handler's task: the envelope enters the validator's
\* mailbox (a failed Send leaves the pipeline as it is).
PipeSubmit ==
    /\ ~crashed
    /\ Len(env) < MaxEnvs
    /\ MailboxHasRoom(vbox)
    /\ \E s \in PipeShapes, id \in Hints :
          Submit(NewRequestWithResponder(
                     [version |-> s.version, id |-> Len(env) + 1,
                      method |-> s.method, params |-> s.params], id))
    /\ UNCHANGED << libVars, workVars, ingressVars, cbox, dbox, cache, dispVars, crashed >>

\* Lines 181-182 of that task: the reply is received (a step of the task, not
\* of the pipeline).
PipeReceive(n) ==
    /\ ~crashed
    /\ env[n].responder # <<>>
    /\ env' = [env EXCEPT ![n].responder = Tail(@)]
    /\ UNCHANGED << libVars, workVars, ingressVars, vbox, cbox, dbox, cache, dispVars, crashed >>

PipeNext ==
    \/ PipeSubmit
    \/ ValidatorReject
    \/ ValidatorForward
    \/ CacherHit
    \/ CacherMiss
    \/ \E n \in Envs : CacherAwait(n)
    \/ \E n \in Envs : CacherRespond(n)
    \/ \E k \in CacheIDs : Expire(k)
    \/ DispatcherReceive
    \/ \E n \in Envs : \E t \in env[n].calls : BackendReturn(n, t)
    \/ DispatcherLoop

PipeSpec == Init /\ [][PipeNext]_vars

(***************************************************************************)
(* Properties of the ingress.                                              *)
(***************************************************************************)
\* The handler has taken a batch of at least one request into phi.ParForAll
\* and has returned.
BatchDone == hpc = "done" /\ reqs # <<>> /\ httpOut # <<>>

WellFormed(req) == isValid(req) = NoError

C2_ResponsesMatchRequests ==
    (BatchDone /\ \A i \in Slots : WellFormed(reqs[i]))
        => /\ Len(httpOut[1].body) = Len(reqs)
           /\ \A i \in Slots : httpOut[1].body[i].id = reqs[i].id

\* The deadline has passed: the runtime has sent on the timer channel.
Expired == timer \in { "fired", "drained" }

\* C3: once the deadline has expired, every task that is still waiting in its
\* select can take the timer case (and so fill its slot with -32004).
C3_ExpiryReachesEveryWaitingTask ==
    \A i \in Slots :
        (hpc = "par" /\ ~crashed /\ Expired /\ tpc[i] = "wait")
            => ENABLED TaskTimeout(i)

\* C10: a batch of more than MaxBatchSize requests is answered by the single
\* error -32001 with HTTP status 400, no call of Allow and no envelope.
C10_OversizeRejected ==
    (hpc = "done" /\ batchSize > MaxBatchSize)
        => /\ Len(httpOut) = 1
           /\ httpOut[1].single
           /\ httpOut[1].body[1].error.code = ErrorCodeMaxBatchSizeExceeded
           /\ httpOut[1].status = StatusBadRequest
           /\ allowCalls = 0
           /\ env = <<>>

(***************************************************************************)
(* Properties of the pipeline.                                             *)
(***************************************************************************)
InBox(box, n) == \E j \in 1..Len(box) : box[j] = n

\* Some stage still has envelope n, or the reply to it, in its hands.
Held(n) ==
    \/ InBox(vbox, n)
    \/ InBox(cbox, n)
    \/ InBox(dbox, n)
    \/ dcur = n
    \/ env[n].iresp # <<>>
    \/ env[n].gpc = "send"

\* C4: an envelope that was submitted is not lost: until its Responder has
\* been written, some stage is working on it; this includes the case of a
\* full dispatcher mailbox.  (A panic of a task aside.)
C4_NoEnvelopeLost ==
    \A n \in Envs : crashed \/ env[n].writes = 1 \/ Held(n)

\* C5: the Responder of an envelope and the reply channel the cacher makes
\* for the dispatcher are each written at most once.
C5_WrittenAtMostOnce ==
    \A n \in Envs : env[n].writes <= 1 /\ env[n].iwrites <= 1

C5_Witness ==
    \E n \in Envs :
        env[n].writes = 1 /\ env[n].writer = "cacher" /\ env[n].iwrites = 1

\* The cacher task takes envelope m from its mailbox in this step.
CacherTakes(m) == cbox # <<>> /\ Head(cbox) = m /\ cbox' = Tail(cbox)

\* C6: when the cacher handles a cacheable request and another request with
\* the same method, parameters and hint has had its response within the TTL,
\* the request is answered from the cache: nothing goes to the dispatcher
\* and no darknode is called.
C6_HitDoesNotForward ==
    [][\A m \in Envs :
          ( /\ CacherTakes(m)
            /\ isCachable(env[m].req.method) = "true"
            /\ \E e \in Envs \ {m} : KeyOf(e) = KeyOf(m) /\ env[e].fresh )
          => /\ env'[m].writer = "cache"
             /\ env'[m].writes = 1
             /\ env'[m].sent = "no"
             /\ env'[m].gpc = "none"
             /\ dbox' = dbox
             /\ backendCalls' = backendCalls]_vars

\* e and m are the only envelopes with their cache key.
OnlyPair(e, m) ==
    /\ e # m
    /\ KeyOf(e) = KeyOf(m)
    /\ \A x \in Envs \ {e, m} : KeyOf(x) # KeyOf(e)

C6_Witness ==
    \E e, m \in Envs :
        /\ OnlyPair(e, m)
        /\ env[e].fresh /\ env[e].writes = 1 /\ env[e].writer = "cacher"
        /\ env[m].writer = "cache" /\ env[m].sent = "no"

CacherHandled(n) == env[n].writer = "cache" \/ env[n].gpc # "none"

\* C8: a ren_submitTx or ren_queryTx request that the cacher handles is not
\* answered from the cache and is in the dispatcher's mailbox afterwards.
C8_NonCacheableForwarded ==
    \A n \in Envs :
        (env[n].req.method \in { MethodSubmitTx, MethodQueryTx } /\ CacherHandled(n))
            => env[n].writer # "cache" /\ env[n].sent = "ok"

\* C9: the cacher task can always handle the next envelope of its mailbox,
\* however many misses are waiting for the dispatcher.
C9_CacherNeverBlocks ==
    (cbox # <<>> /\ ~crashed) => ENABLED (CacherHit \/ CacherMiss)

\* A hit was served while the miss of an earlier envelope was in flight.
C9_Witness ==
    \E e, m \in Envs :
        /\ e < m
        /\ KeyOf(e) # KeyOf(m)
        /\ env[e].gpc = "wait" /\ env[e].sent = "ok" /\ env[e].iwrites = 0
        /\ env[m].writer = "cache"

(***************************************************************************)
(* Properties of the per-request tasks of the ingress.                     *)
(***************************************************************************)
\* C11: a request with an unknown method gets the -32601 slot without a call
\* of Allow and without an envelope: Allow is called only by tasks that got
\* past the method check, and no envelope carries an unknown method.
C11_MethodCheckBeforeRateLimit ==
    /\ \A i \in Slots :
          reqs[i].method \notin RPCs
              => /\ allowed[i] = "none"
                 /\ slotEnv[i] = 0
                 /\ tpc[i] \in { "start", "done" }
                 /\ tpc[i] = "done"
                       => responses[i] = errResponse(ErrorCodeMethodNotFound,
                                                     reqs[i].id, "unsupported method")
    /\ allowCalls = Cardinality({ i \in Slots : allowed[i] # "none" })
    /\ \A n \in Envs : env[n].req.method \in RPCs

C11_Witness ==
    \E i, j \in Slots :
        /\ reqs[i].method \notin RPCs /\ tpc[i] = "done"
        /\ allowed[j] = "yes" /\ slotEnv[j] # 0
        /\ allowCalls = 1

\* C12: a request the rate limiter refuses gets the -32002 slot with its id
\* and no envelope; the requests the rate limiter lets through do not get
\* that error.
C12_RateLimitedSlot ==
    \A i \in Slots :
        /\ allowed[i] = "no"
              => /\ tpc[i] = "done"
                 /\ slotEnv[i] = 0
                 /\ responses[i] = errResponse(ErrorCodeRateLimitExceeded,
                                               reqs[i].id, "rate limit exceeded")
                 /\ BatchDone
                       => httpOut[1].body[i].error.code = ErrorCodeRateLimitExceeded
        /\ allowed[i] = "yes"
              => responses[i].error.code # ErrorCodeRateLimitExceeded

C12_Witness ==
    /\ BatchDone
    /\ \E i, j \in Slots :
          /\ allowed[i] = "no"
          /\ allowed[j] = "yes" /\ responses[j].result # NoResult

\* Request i's task has been let through by the rate limiter and has not got
\* its envelope into the validator's mailbox.
SendFailed(i) == allowed[i] = "yes" /\ slotEnv[i] = 0

\* C13: a task that finds the validator's mailbox full does not wait: in the
\* same step its slot becomes the -32603 response with the request's id, no
\* envelope is made or queued, and the task is over (it never reaches the
\* select on the reply channel and the timer).
C13_FullMailboxFailsAtOnce ==
    /\ [][\A i \in Slots :
            ( /\ hpc = "par" /\ tpc[i] = "start"
              /\ allowed'[i] = "yes"
              /\ Len(vbox) >= MailboxCap )
            => /\ tpc'[i] = "done"
               /\ slotEnv'[i] = 0
               /\ vbox' = vbox
               /\ env' = env]_vars
    /\ [](\A i \in Slots :
            SendFailed(i)
                => /\ tpc[i] = "done"
                   /\ responses[i].id = reqs[i].id
                   /\ responses[i].result = NoResult
                   /\ responses[i].error.code = ErrorCodeInternal)

C13_Witness ==
    \E i \in Slots :
        /\ SendFailed(i)
        /\ tpc[i] = "done"
        /\ responses[i].error.code = ErrorCodeInternal
        /\ Len(vbox) >= MailboxCap

(***************************************************************************)
(* The validator on its own, as its tests run it: requests of every shape  *)
(* are sent to it, an inspector stands for the next stage, and the sender  *)
(* reads the reply channel.                                                *)
(***************************************************************************)
VShapes ==
    { [version |-> v, method |-> m, params |-> p] :
        v \in { "2.0", "1.0" },
        m \in { MethodQueryBlock, MethodSubmitTx, "method" },
        p \in { "{n:1}", "{tx:1}", "" } }

\* validator.Send(http.NewRequestWithResponder(ctx, request, ""))
ValSubmit ==
    /\ ~crashed
    /\ Len(env) < MaxEnvs
    /\ MailboxHasRoom(vbox)
    /\ \E s \in VShapes :
          Submit(NewRequestWithResponder(
                     [version |-> s.version, id |-> Len(env) + 1,
                      method |-> s.method, params |-> s.params], ""))
    /\ UNCHANGED << libVars, workVars, ingressVars, cbox, dbox, cache, dispVars, crashed >>

\* message := <-messages: the inspector hands over what the validator sent on.
InspectorReceive ==
    /\ ~crashed
    /\ cbox # <<>>
    /\ cbox' = Tail(cbox)
    /\ UNCHANGED << libVars, workVars, ingressVars, env, vbox, dbox, cache, dispVars, crashed >>

ValNext ==
    \/ ValSubmit
    \/ ValidatorReject
    \/ ValidatorForward
    \/ InspectorReceive
    \/ \E n \in Envs : PipeReceive(n)

ValSpec == Init /\ [][ValNext]_vars

(***************************************************************************)
(* Properties of the validator.                                            *)
(***************************************************************************)
\* The validator has taken envelope n from its mailbox.
ValidatorHandled(n) == ~InBox(vbox, n)

\* The validator takes envelope n from its mailbox in this step.
ValidatorTakes(n) == vbox # <<>> /\ Head(vbox) = n /\ vbox' = Tail(vbox)

\* The request fails one of the three checks.
FailsACheck(req) ==
    \/ req.version # "2.0"
    \/ req.method \notin RPCs
    \/ ~ParamsMatch(req.method, req.params)

\* C14: a request that fails a check of the validator gets exactly one
\* response on its reply channel, an error with version "2.0", the request's
\* id and no result, and its envelope does not go to the next stage.
C14_RejectedGetsOneError ==
    /\ [](\A n \in Envs :
            (FailsACheck(env[n].req) /\ ValidatorHandled(n))
                => /\ env[n].writes = 1
                   /\ env[n].writer = "validator"
                   /\ env[n].out.version = "2.0"
                   /\ env[n].out.id = env[n].req.id
                   /\ env[n].out.result = NoResult
                   /\ env[n].out.error # NoError
                   /\ ~InBox(cbox, n))
    /\ [][\A n \in Envs :
            (ValidatorTakes(n) /\ FailsACheck(env[n].req)) => cbox' = cbox]_vars

C14_Witness ==
    \E a, b, c \in Envs :
        /\ env[a].req.version # "2.0" /\ env[a].writes = 1
        /\ env[b].req.version = "2.0" /\ env[b].req.method \notin RPCs
        /\ env[b].writes = 1
        /\ env[c].req.version = "2.0" /\ env[c].req.method \in RPCs
        /\ ~ParamsMatch(env[c].req.method, env[c].req.params) /\ env[c].writes = 1

\* C15: the checks are made in the order version, method, parameters and
\* the first that fails gives the code: -32600 for a wrong version whatever
\* the method and the parameters, -32601 for an unknown method with the right
\* version, -32602 for parameters that do not match with the right version
\* and a known method.
C15_FirstFailingCheckDecides ==
    \A n \in Envs :
        (FailsACheck(env[n].req) /\ ValidatorHandled(n))
            => env[n].out.error.code =
                 IF env[n].req.version # "2.0" THEN ErrorCodeInvalidRequest
                 ELSE IF env[n].req.method \notin RPCs THEN ErrorCodeMethodNotFound
                 ELSE ErrorCodeInvalidParams

C15_Witness ==
    \E a, b \in Envs :
        /\ env[a].req.version # "2.0" /\ env[a].req.method \notin RPCs
        /\ ~ParamsMatch(env[a].req.method, env[a].req.params)
        /\ env[a].out.error.code = ErrorCodeInvalidRequest
        /\ env[b].req.version = "2.0" /\ env[b].req.method \notin RPCs
        /\ ~ParamsMatch(env[b].req.method, env[b].req.params)
        /\ env[b].out.error.code = ErrorCodeMethodNotFound

\* The envelope has gone on to the cacher.
Forwarded(n) == InBox(cbox, n) \/ CacherHandled(n)

\* C16: a request that passes the checks goes to the next stage in an
\* envelope that still holds the request the ingress submitted and the reply
\* channel the ingress made, and the validator writes nothing to that channel.
C16_ValidForwardedUnchanged ==
    /\ \A i \in Slots :
          slotEnv[i] # 0
              => /\ env[slotEnv[i]].req = reqs[i]
                 /\ env[slotEnv[i]].hint = darknodeID
    /\ \A n \in Envs :
          ~FailsACheck(env[n].req)
              => /\ env[n].writer # "validator"
                 /\ ValidatorHandled(n) => Forwarded(n)
                 /\ (Forwarded(n) /\ ~CacherHandled(n))
                       => env[n].writes = 0 /\ env[n].responder = <<>>

C16_Witness ==
    \E i \in Slots :
        /\ slotEnv[i] # 0
        /\ InBox(cbox, slotEnv[i])
        /\ ~FailsACheck(reqs[i])
        /\ env[slotEnv[i]].writes = 0

(***************************************************************************)
(* writeResponses on its own: it is given every list of at most            *)
(* MaxBatchSize responses, each a result or an error of one of the codes.  *)
(***************************************************************************)
ErrorCodes ==
    { ErrorCodeMaxBatchSizeExceeded, ErrorCodeRateLimitExceeded,
      ErrorCodeForwardingError, ErrorCodeTimeout, ErrorCodeInvalidJSON,
      ErrorCodeInvalidRequest, ErrorCodeMethodNotFound, ErrorCodeInvalidParams,
      ErrorCodeInternal, ErrorCodeResultNotFound, -32000, 1 }

ResponseValues ==
    { NewResponse(1, "result", NoError) }
        \cup { errResponse(c, 1, "message") : c \in ErrorCodes }

WriteAny ==
    /\ ~crashed
    /\ \E n \in 0..MaxBatchSize :
       \E rs \in [1..n -> ResponseValues] :
          /\ responses' = rs
          /\ httpOut' = << writeResponses(rs) >>
    /\ UNCHANGED << libVars, workVars, hpc, darknodeID, rawMessage, batchSize, reqs, tpc, slotEnv, timer,
                    ctxDone, allowCalls, allowed, env, vbox, cbox, dbox, cache,
                    dispVars, crashed >>

WriteSpec == Init /\ [][WriteAny]_vars

(***************************************************************************)
(* Properties of the HTTP response.                                        *)
(***************************************************************************)
\* C17: the handler writes one object for exactly one response and an array
\* otherwise; the status is not 200 only for exactly one response that is an
\* error, and then it is the status of that error's code; a batch of two or
\* more responses has status 200 even when all of them are errors.
C17_ObjectOrArrayAndStatus ==
    \A k \in 1..Len(httpOut) :
        LET o == httpOut[k] IN
        /\ o.single <=> Len(o.body) = 1
        /\ (Len(o.body) = 1 /\ o.body[1].error # NoError)
              => /\ o.status = writeError(o.body[1].id, o.body[1].error).status
                 /\ o.status # StatusOK
        /\ ~(Len(o.body) = 1 /\ o.body[1].error # NoError) => o.status = StatusOK
        /\ BatchDone => o.body = responses

C17_Witness ==
    /\ BatchDone
    /\ Len(responses) = 2
    /\ \A i \in Slots : responses[i].error # NoError
    /\ httpOut[1].status = StatusOK
    /\ ~httpOut[1].single

DispatcherTook(n) == env[n].sent = "ok" /\ ~InBox(dbox, n)

\* What the dispatcher sent on the reply channel the cacher made for n.
DispatcherReply(n) ==
    IF env[n].iresp # <<>> THEN Head(env[n].iresp) ELSE env[n].gresp

\* C19: with no address known, the dispatcher answers every envelope it takes
\* with an error of code -32003 and calls no darknode.
C19_EmptyTargetListAnswered ==
    \A n \in Envs :
        (addrs = <<>> /\ DispatcherTook(n))
            => /\ ~crashed
               /\ env[n].iwrites = 1
               /\ DispatcherReply(n).error.code = ErrorCodeForwardingError
               /\ backendCalls = 0

\* Exactly one of result and error is present in r.
ExactlyOneOfResultAndError(r) == (r.result # NoResult) # (r.error # NoError)

\* C20: every response a stage sends on a reply channel (the Responder of an
\* envelope, or the channel the cacher makes for the dispatcher) has exactly
\* one of result and error.
C20_ResultXorError ==
    \A n \in Envs :
        /\ \A k \in 1..Len(env[n].iresp) : ExactlyOneOfResultAndError(env[n].iresp[k])
        /\ env[n].writes >= 1 => ExactlyOneOfResultAndError(env[n].out)

(***************************************************************************)
(* C21: a single request with an unknown method posted to the endpoint.    *)
(***************************************************************************)
\* The strings that may stand before and after a part of a message.
Affixes == { "", " ", "lightnode: " }
\* strings.Contains, for the messages the handlers write.
Contains(message, part) == \E a, b \in Affixes : message = a \o part \o b

\* The POST was one request object whose method is not one of the RPCs, and
\* the handler has answered it.
UnknownMethodAnswered ==
    /\ BatchDone
    /\ rawMessage.kind = "object"
    /\ reqs[1].method \notin RPCs

\* C21 as stated: a single request with an unknown method is answered with
\* one error of code -32601 whose message contains "unsupported method"
\* followed by the method's name, and with HTTP status 404.
C21_MessageNamesMethod ==
    UnknownMethodAnswered =>
        /\ httpOut[1].status = StatusNotFound
        /\ httpOut[1].single
        /\ httpOut[1].body[1].error # NoError
        /\ httpOut[1].body[1].error.code = ErrorCodeMethodNotFound
        /\ Contains(httpOut[1].body[1].error.message,
                    "unsupported method " \o reqs[1].method)

\* C21 amended: a single request with an unknown method is answered by the
\* ingress, before the rate limiter and the validator, with one error of
\* code -32601 and the request's id whose message is "unsupported method"
\* (the method's name is not in it), and with HTTP status 404.
C21_UnknownMethodAnswer ==
    UnknownMethodAnswered =>
        /\ httpOut = << [status |-> StatusNotFound, single |-> TRUE,
                         body |-> << NewResponse(reqs[1].id, NoResult,
                                         NewError(ErrorCodeMethodNotFound,
                                                  "unsupported method")) >>] >>
        /\ allowCalls = 0
        /\ slotEnv[1] = 0

C21_Witness ==
    /\ UnknownMethodAnswered
    /\ reqs[1].method = "method"
    /\ httpOut[1].status = StatusNotFound

(***************************************************************************)
(* C22: what the cache holds.                                              *)
(***************************************************************************)
\* The cache keys that derive from a request of the method.
KeysOfMethod(method) ==
    { CacheID(hash(s.params, s.method), h) :
        s \in { t \in Shapes : t.method = method }, h \in Hints }

\* C22: the cache holds no entry whose key derives from a ren_submitTx or a
\* ren_queryTx request.
C22_OnlyCacheableInserted ==
    \A k \in KeysOfMethod(MethodSubmitTx) \cup KeysOfMethod(MethodQueryTx) :
        cache[k] = NoEntry

(***************************************************************************)
(* C23: the client cancels while tasks of the batch wait.                  *)
(***************************************************************************)
\* The response a task writes when it sees the cancellation.
CancelledResponse(i) ==
    NewResponse(reqs[i].id, NoResult,
                NewError(ErrorCodeTimeout,
                         "context canceled by the client for request="
                             \o ToString(reqs[i].id) \o ", method= " \o reqs[i].method))

\* C23: once the request's context is cancelled, it stays cancelled for as
\* long as the handler runs; every task that waits can take the cancellation
\* at once; a waiting task whose reply has not come fills its slot with an
\* error of code -32004 and the request's id; and the handler terminates
\* (the process not having died), whatever the size of the batch.
C23_CancelReachesEveryWaitingTask ==
    /\ [](\A i \in Slots :
             (hpc = "par" /\ ~crashed /\ ctxDone /\ tpc[i] = "wait")
                 => ENABLED TaskCancelled(i))
    /\ [][ /\ (ctxDone /\ hpc' = "par") => ctxDone'
           /\ \A i \in Slots :
                 ( /\ ctxDone /\ tpc[i] = "wait" /\ tpc'[i] = "done"
                   /\ env[slotEnv[i]].responder = <<>> )
                     => /\ responses'[i].error # NoError
                        /\ responses'[i].error.code = ErrorCodeTimeout
                        /\ responses'[i].id = reqs[i].id ]_vars
    /\ (hpc = "par" /\ ctxDone) ~> (hpc = "done" \/ crashed)

\* A batch of MaxBatchSize requests all of which were answered by the
\* cancellation.
C23_Witness ==
    /\ BatchDone
    /\ Len(reqs) = MaxBatchSize
    /\ \A i \in Slots : httpOut[1].body[i] = CancelledResponse(i)

(***************************************************************************)
(* C24: how the ingress parses the body.                                   *)
(***************************************************************************)
\* What the handler writes for a body it cannot parse.
ParseError(message) ==
    [status |-> StatusBadRequest, single |-> TRUE,
     body |-> << NewResponse(0, NoResult, NewError(ErrorCodeInvalidJSON, message)) >>]

\* C24: the handler takes an array of requests as the batch, and a request
\* object as a batch of that one request; a body that is not JSON, or JSON
\* that is neither, is answered with the single error -32700 and status 400,
\* without a call of the rate limiter and without anything being submitted
\* to the validator.
C24_ParseArrayThenSingle ==
    [][ postsLeft' = postsLeft - 1 =>
          CASE rawMessage'.kind \in { "invalid", "scalar" } ->
                  /\ hpc' = "done"
                  /\ httpOut' =
                        << ParseError(IF rawMessage'.kind = "invalid"
                                      THEN "lightnode could not decode JSON request"
                                      ELSE "lightnode could not parse JSON request") >>
                  /\ allowCalls' = 0
                  /\ reqs' = <<>>
                  /\ env' = env /\ vbox' = vbox
            [] rawMessage'.kind = "array" /\ Len(rawMessage'.shapes) <= MaxBatchSize ->
                  /\ hpc' = "par"
                  /\ reqs' = WithIDs(rawMessage'.shapes)
            [] rawMessage'.kind = "object" ->
                  /\ hpc' = "par"
                  /\ Len(reqs') = 1
                  /\ reqs' = WithIDs(rawMessage'.shapes)
            [] OTHER -> TRUE ]_vars

\* A JSON body that is neither an array of requests nor a request was
\* answered.
C24_Witness ==
    /\ hpc = "done"
    /\ rawMessage.kind = "scalar"
    /\ httpOut = << ParseError("lightnode could not parse JSON request") >>
    /\ allowCalls = 0

SameRequest(e, m) ==
    /\ env[e].req.method = env[m].req.method
    /\ env[e].req.params = env[m].req.params

\* C26: a response served from the cache was returned by the dispatcher for
\* a request with the same method, the same parameters and the same target
\* hint; and what the dispatcher holds is an envelope the cacher forwarded,
\* with its request and its hint.
C26_HintIsPartOfKey ==
    /\ \A m \in Envs :
          env[m].writer = "cache"
              => \E e \in Envs \ {m} :
                    /\ SameRequest(e, m)
                    /\ env[e].hint = env[m].hint
                    /\ env[e].gpc \in { "send", "done" }
                    /\ env[m].out = env[e].gresp
    /\ \A n \in Envs :
          (InBox(dbox, n) \/ dcur = n)
              => /\ env[n].sent = "ok"
                 /\ env[n].gpc # "none"

\* The cacher is about to handle a cacheable request whose method and
\* parameters have a fresh entry under the other hint only: it cannot answer
\* from the cache and forwards the request.
C26_Witness ==
    \E e, m \in Envs :
        /\ e # m
        /\ SameRequest(e, m)
        /\ isCachable(env[m].req.method) = "true"
        /\ env[e].hint # env[m].hint
        /\ env[e].fresh
        /\ cbox # <<>> /\ Head(cbox) = m
        /\ ~ENABLED CacherHit
        /\ ENABLED CacherMiss

(***************************************************************************)
(* C27: responses that carry an error are cached like any other.           *)
(***************************************************************************)
\* The envelopes other than m with m's key whose entry is within its TTL.
FreshFor(m) == { e \in Envs \ {m} : KeyOf(e) = KeyOf(m) /\ env[e].fresh }

\* C27: when the cacher handles a cacheable request while the responses the
\* dispatcher returned for its key within the TTL all carry an error, the
\* request is answered from the cache with one of those very responses, error
\* included: nothing goes to the dispatcher and no darknode is called.
C27_ErrorsAreCached ==
    [][\A m \in Envs :
          ( /\ CacherTakes(m)
            /\ isCachable(env[m].req.method) = "true"
            /\ FreshFor(m) # {}
            /\ \A e \in FreshFor(m) : env[e].gresp.error # NoError )
              => /\ env'[m].writer = "cache"
                 /\ env'[m].out \in { env[e].gresp : e \in FreshFor(m) }
                 /\ env'[m].out.error # NoError
                 /\ env'[m].sent = "no"
                 /\ dbox' = dbox
                 /\ backendCalls' = backendCalls ]_vars

\* A request was answered from the cache with the error the dispatcher had
\* returned for the one identical request before it, after one call of a
\* darknode in all.
C27_Witness ==
    \E e, m \in Envs :
        /\ OnlyPair(e, m)
        /\ env[e].fresh /\ env[e].gpc = "done"
        /\ env[e].gresp = DarknodeError(env[e].req)
        /\ env[m].writer = "cache" /\ env[m].sent = "no"
        /\ env[m].out = env[e].gresp
        /\ backendCalls = 1

(***************************************************************************)
(* C28: concurrent misses for one key.                                     *)
(***************************************************************************)
\* C28: two requests with the same cacheable key that both missed the cache
\* and whose goroutines both wait for the dispatcher have both been forwarded
\* to the dispatcher; and an envelope whose goroutine has had the dispatcher's
\* reply within the TTL has an entry under its key.
C28_ConcurrentMissesBothForwarded ==
    /\ \A e, m \in Envs :
          ( /\ e # m
            /\ KeyOf(e) = KeyOf(m)
            /\ isCachable(env[m].req.method) = "true"
            /\ env[e].gpc = "wait" /\ env[m].gpc = "wait" )
              => env[e].sent = "ok" /\ env[m].sent = "ok"
    /\ \A n \in Envs : env[n].fresh => cache[KeyOf(n)] # NoEntry

(***************************************************************************)
(* C29: MultiAddrStore.RandomAddrs                                         *)
(***************************************************************************)
\* C29: a call of RandomAddrs(n) returns min(n, Size()) multi-addresses,
\* pairwise distinct, each of them held by the store under its ID, whatever
\* n >= 0 and whatever Insert and Delete have made of the store.
C29_RandomAddrsResult ==
    [][ StoreRandomAddrs =>
          LET out == addrsOut'.addrs
              n == addrsOut'.n
          IN  /\ Len(out) = IF n < Size THEN n ELSE Size
              /\ \A i, j \in 1..Len(out) : i # j => out[i] # out[j]
              /\ \A i \in 1..Len(out) :
                    /\ out[i].id \in Keys
                    /\ store[out[i].id] = String(out[i]) ]_vars

\* A call with n below the size of the store returned n addresses of it.
C29_Witness ==
    /\ Size = MaxIDs
    /\ addrsOut.n = MaxIDs - 1
    /\ Len(addrsOut.addrs) = MaxIDs - 1
    /\ \A i \in 1..Len(addrsOut.addrs) :
          store[addrsOut.addrs[i].id] = String(addrsOut.addrs[i])

(***************************************************************************)
(* C30: DB.PendingTxs                                                      *)
(***************************************************************************)
\* The txs a call of PendingTxs is to return: the rows of shiftin and of
\* shiftout whose status is confirming and whose age is below PendingExpiry.
PendingSet ==
    { [hash |-> h, to |-> "ShiftIn"] : h \in Selected(shiftin) }
        \cup { [hash |-> h, to |-> "ShiftOut"] : h \in Selected(shiftout) }

\* C30: a call of PendingTxs during which the database does not fail returns
\* with a nil error each stored shift-in and shift-out tx that is confirming
\* and younger than 86400 s, once, and no other; a call during which a query,
\* a scan or the iteration over the rows fails returns a non-nil error.
C30_PendingTxsResult ==
    [][ CallPendingTxs =>
          IF pending'.fail = "none"
          THEN /\ pending'.err = NilError
               /\ { pending'.txs[i] : i \in 1..Len(pending'.txs) } = PendingSet
               /\ Len(pending'.txs) = Cardinality(PendingSet)
          ELSE pending'.err # NilError ]_vars

(***************************************************************************)
(* C31: Lightnode.Run                                                      *)
(***************************************************************************)
\* C31: once Run has sent its first Tick, the Ticks it has sent are that one
\* and one for each firing of the ticker (but for the firing it is about to
\* receive or has just received); and Run returns after done is closed.
C31_TickPerFiringAndReturn ==
    /\ [](runPc # "first"
            => ticks = 1 + firings - tickerC - (IF runPc = "tick" THEN 1 ELSE 0))
    /\ done ~> (runPc = "returned")

(***************************************************************************)
(* C32: the status of a tx only moves forward.                             *)
(***************************************************************************)
\* The hash has a row in one of the tables.
Stored(h) == shiftin[h] # NoRow \/ shiftout[h] # NoRow

\* C32: a tx is stored with status confirming; ConfirmTx of a stored hash
\* makes Confirmed true for it; and Confirmed stays true for a hash under
\* InsertShiftIn, InsertShiftOut and ConfirmTx (every step that deletes no
\* row).
C32_StatusOnlyMovesForward ==
    [][ /\ \A h \in Hashes :
              /\ (shiftin[h] = NoRow /\ shiftin'[h] # NoRow)
                    => shiftin'[h].status = TxStatusConfirming
              /\ (shiftout[h] = NoRow /\ shiftout'[h] # NoRow)
                    => shiftout'[h].status = TxStatusConfirming
              /\ (Stored(h) /\ ConfirmTx(h)) => Confirmed(h)'
        /\ (\A h \in Hashes : /\ shiftin[h] # NoRow => shiftin'[h] # NoRow
                              /\ shiftout[h] # NoRow => shiftout'[h] # NoRow)
              => \A h \in Hashes : Confirmed(h) => Confirmed(h)' ]_vars

(***************************************************************************)
(* C33: on a miss the insert comes before the reply.                       *)
(***************************************************************************)
\* C33: the goroutine of a miss inserts the dispatcher's response under the
\* request's key in the step in which it receives it, before anything is
\* written to the original reply channel; it writes to that channel only
\* afterwards; and a cacheable request the cacher handles after another one
\* with the same key got its response from that goroutine, within the TTL, is
\* answered from the cache and not forwarded.
C33_InsertBeforeReply ==
    [][\A n \in Envs :
          /\ (env[n].gpc = "wait" /\ env'[n].gpc # "wait")
                => /\ cache'[KeyOf(n)] = Encode(env'[n].gresp)
                   /\ env'[n].responder = env[n].responder
                   /\ env'[n].writes = env[n].writes
          /\ (env'[n].writes # env[n].writes /\ env'[n].writer = "cacher")
                => /\ env[n].gpc = "send"
                   /\ env[n].fresh => cache[KeyOf(n)] = Encode(env[n].gresp)
                                          \/ \E e \in Envs \ {n} :
                                                /\ KeyOf(e) = KeyOf(n)
                                                /\ cache[KeyOf(n)] = Encode(env[e].gresp)
          /\ ( /\ CacherTakes(n)
               /\ isCachable(env[n].req.method) = "true"
               /\ \E e \in Envs \ {n} :
                     /\ KeyOf(e) = KeyOf(n)
                     /\ env[e].writer = "cacher"
                     /\ env[e].fresh )
                => /\ env'[n].writer = "cache"
                   /\ env'[n].sent = "no"
                   /\ backendCalls' = backendCalls ]_vars

\* A request was answered by the goroutine of its miss, and the same request,
\* submitted after it, was answered from the cache with the same response
\* after one call of a darknode in all.
C33_Witness ==
    \E e, m \in Envs :
        /\ OnlyPair(e, m)
        /\ e < m
        /\ isCachable(env[m].req.method) = "true"
        /\ env[e].writer = "cacher" /\ env[e].writes = 1 /\ env[e].fresh
        /\ env[m].writer = "cache" /\ env[m].out = env[e].out
        /\ backendCalls = 1

C35_WriteNeverBlocks ==
    /\ \A n \in Envs :
          /\ Len(env[n].responder) <= 1 /\ Len(env[n].iresp) <= 1
          /\ (~crashed /\ env[n].gpc = "send") => ENABLED CacherRespond(n)
          /\ ( /\ ~crashed
               /\ dcur = n
               /\ env[n].replies # <<>> \/ env[n].fpc = "closed" )
                => ENABLED DispatcherLoop
    /\ ( /\ ~crashed
         /\ cbox # <<>>
         /\ isCachable(env[Head(cbox)].req.method) = "true"
         /\ get(reqIDOf(Head(cbox)), env[Head(cbox)].hint).cached )
          => ENABLED CacherHit

\* The handler has returned with an error of code -32004 (timeout or client
\* gone) in the slot of a request, and the cacher's goroutine has written the
\* dispatcher's reply for that request to the reply channel, where it stays
\* unread.
C35_Witness ==
    \E i \in Slots :
        /\ BatchDone
        /\ slotEnv[i] \in Envs
        /\ responses[i].error.code = ErrorCodeTimeout
        /\ env[slotEnv[i]].writer = "cacher"
        /\ env[slotEnv[i]].gpc = "done"
        /\ env[slotEnv[i]].iwrites = 1
        /\ env[slotEnv[i]].responder = << env[slotEnv[i]].out >>

(***************************************************************************)
(* C36: the dispatcher serves one envelope at a time, in mailbox order.    *)
(***************************************************************************)
\* C36: a call of a darknode is outstanding only for the envelope the
\* dispatcher is handling; while it handles one it takes nothing from its
\* mailbox; and the fan-out of an envelope starts only when the dispatcher is
\* idle, for the envelope at the head of the mailbox, every envelope whose
\* fan-out was started before having had its reply written.
C36_OneEnvelopeAtATime ==
    /\ [](\A n \in Envs : env[n].calls # {} => dcur = n)
    /\ [](dcur # 0 => ~ENABLED DispatcherReceive)
    /\ [][\A n \in Envs :
             (env[n].fpc = "none" /\ env'[n].fpc # "none")
                => /\ dcur = 0 /\ dcur' = n
                   /\ dbox # <<>> /\ n = Head(dbox) /\ dbox' = Tail(dbox)
                   /\ \A e \in Envs \ {n} :
                         env[e].fpc # "none" => env[e].iwrites = 1 ]_vars
    /\ [][dcur # 0 => \/ dbox' = dbox
                     \/ \E n \in Envs : dbox' = Append(dbox, n) ]_vars

\* The call of a darknode for the envelope in hand has not returned, an
\* earlier envelope has had its reply, and another envelope waits in the
\* mailbox with its fan-out not started.
C36_Witness ==
    \E e, n, m \in Envs :
        /\ env[e].fpc = "closed" /\ env[e].iwrites = 1
        /\ dcur = n /\ env[n].calls # {} /\ env[n].iwrites = 0
        /\ dbox = << m >> /\ env[m].fpc = "none"

====
